---- MODULE Spec2Model ----
(***************************************************************************)
(* A model of two files of the repository:                                 *)
(*   crates/next-core/src/next_font/font_fallback.rs                       *)
(*     FontFallback, FontFallbacks, FontAdjustment and the two default     *)
(*     fallback fonts;                                                     *)
(*   turbopack/xtask/src/main.rs                                           *)
(*     the `workspace` and `upgrade-swc` commands of xtask.                *)
(* Each part has its own specification (SpecFallbacks, SpecEq, SpecLazy,   *)
(* SpecClassify, SpecWorkspace, SpecSwc); a specification holds the        *)
(* variables of the other parts at their initial values.                   *)
(***************************************************************************)
EXTENDS Integers, Sequences, FiniteSets, TLC

VARIABLES
    \* FontFallbacks::has_size_adjust, font_fallback.rs:68-76
    fallbacks,      \* self.0 : Vec<Vc<FontFallback>>
    idx,            \* position of the `for` loop in self.0 (1-based)
    aggPc,          \* "iter" | "await" | "returned"
    started,        \* indices whose has_size_adjust task has been created
    answers,        \* index -> outcome of the awaited element task
    aggResult,      \* <<>> while running, else Ok(b) or Err
    \* FontAdjustment equality, font_fallback.rs:82-92
    eqA, eqB,       \* the two operands
    eqResult,       \* <<>> before the comparison, else <<b>>
    \* DEFAULT_SANS_SERIF_FONT / DEFAULT_SERIF_FONT, font_fallback.rs:15-29
    cellState,      \* static -> "Incomplete" | "Running" | "Complete"
    cellValue,      \* static -> None | Some(DefaultFallbackFont)
    initRuns,       \* static -> number of runs of its initializer
    rdPc,           \* reader -> "idle" | "force" | "init"
    rdTarget,       \* reader -> the static it is dereferencing
    rdCount,        \* reader -> dereferences completed
    rdSeen,         \* every <<static, value>> a dereference has returned
    \* the fallback classifier (spec 4.2-4.4)
    clsFamily,      \* Option<GenericFamily>
    clsManual,      \* Option<Vec<RcStr>>
    clsMetrics,     \* Option<target font metrics>
    clsPc,          \* "start" | "classified" | "queried"
    clsResult,      \* None | Some(FontFallback)
    clsComputed,    \* the metric adjustment calculator has been run
    clsAnswer,      \* None | Some(has_size_adjust of the result)
    \* xtask `workspace`, main.rs:90-105
    wsBump, wsPublish, wsDryRun,    \* the three flags
    wsNameArg,      \* get_many("NAME"): None | Some(values)
    wsPc,           \* position in the match arm
    wsLog,          \* calls and returns of run_bump / publish_workspace
    wsExit,         \* None | Some(Ok(()))
    \* xtask `upgrade-swc`, main.rs:110-165
    lock,           \* lock.packages : Vec<Package>
    swc_packages,   \* Vec<&Package>, as positions in lock.packages
    only_swc_set,   \* HashSet<&str>
    packages,       \* HashMap<String, &Package>
    queue,          \* Vec<&Package>
    set,            \* HashSet<String>
    swcPc,          \* "start" | "loop" | "cargo" | "done" | "panicked"
    pushes,         \* identifier -> number of queue.push at line 141
    cargoArgs       \* arguments of the two cargo invocations

fontVars == <<fallbacks, idx, aggPc, started, answers, aggResult>>
eqVars   == <<eqA, eqB, eqResult>>
lazyVars == <<cellState, cellValue, initRuns, rdPc, rdTarget, rdCount, rdSeen>>
clsVars  == <<clsFamily, clsManual, clsMetrics, clsPc, clsResult, clsComputed,
              clsAnswer>>
wsVars   == <<wsBump, wsPublish, wsDryRun, wsNameArg, wsPc, wsLog, wsExit>>
swcVars  == <<lock, swc_packages, only_swc_set, packages, queue, set, swcPc,
              pushes, cargoArgs>>
vars     == <<fontVars, eqVars, lazyVars, clsVars, wsVars, swcVars>>

\* what each part leaves alone
notFont == <<eqVars, lazyVars, clsVars, wsVars, swcVars>>
notEq   == <<fontVars, lazyVars, clsVars, wsVars, swcVars>>
notLazy == <<fontVars, eqVars, clsVars, wsVars, swcVars>>
notCls  == <<fontVars, eqVars, lazyVars, wsVars, swcVars>>
notWs   == <<fontVars, eqVars, lazyVars, clsVars, swcVars>>
notSwc  == <<fontVars, eqVars, lazyVars, clsVars, wsVars>>

----------------------------------------------------------------------------
(* Bounds of the model. *)

\* longest FontFallbacks sequence explored
MaxLen == 3

\* threads that read the default fallback fonts
NumReaders == 2

\* dereferences each thread performs
MaxReads == 2

\* most values given for the NAME argument
MaxNames == 2

\* most dependencies of one package of the lockfile
MaxDeps == 2

----------------------------------------------------------------------------
(* Option<T> and Result<T> *)

None == <<>>
Some(x) == <<x>>
is_some(o) == o # <<>>

Ok(v) == <<"Ok", v>>
Err == <<"Err">>

----------------------------------------------------------------------------
(* The parts a specification does not run stay at these values. *)

IdleFallbacks ==
    /\ fallbacks = <<>>
    /\ idx = 1
    /\ aggPc = "idle"
    /\ started = {}
    /\ answers = <<>>
    /\ aggResult = <<>>

IdleEq ==
    /\ eqA = None
    /\ eqB = None
    /\ eqResult = <<>>

IdleLazy ==
    /\ cellState = <<>>
    /\ cellValue = <<>>
    /\ initRuns = <<>>
    /\ rdPc = <<>>
    /\ rdTarget = <<>>
    /\ rdCount = <<>>
    /\ rdSeen = {}

IdleCls ==
    /\ clsFamily = None
    /\ clsManual = None
    /\ clsMetrics = None
    /\ clsPc = "idle"
    /\ clsResult = None
    /\ clsComputed = FALSE
    /\ clsAnswer = None

IdleWs ==
    /\ wsBump = FALSE
    /\ wsPublish = FALSE
    /\ wsDryRun = FALSE
    /\ wsNameArg = None
    /\ wsPc = "idle"
    /\ wsLog = <<>>
    /\ wsExit = None

IdleSwc ==
    /\ lock = <<>>
    /\ swc_packages = <<>>
    /\ only_swc_set = {}
    /\ packages = <<>>
    /\ queue = <<>>
    /\ set = {}
    /\ swcPc = "idle"
    /\ pushes = <<>>
    /\ cargoArgs = <<>>

----------------------------------------------------------------------------
(* f64: a value is its bit pattern, split into sign, biased exponent and   *)
(* fraction.  Only the patterns below are drawn as inputs.                 *)

PosZero == [sign |-> 0, exp |-> 0, frac |-> 0]
NegZero == [sign |-> 1, exp |-> 0, frac |-> 0]
One     == [sign |-> 0, exp |-> 1023, frac |-> 0]
NaN     == [sign |-> 0, exp |-> 2047, frac |-> 1]

F64 == {PosZero, NegZero, One, NaN}

is_nan(x) == x.exp = 2047 /\ x.frac # 0
is_zero(x) == x.exp = 0 /\ x.frac = 0

\* x.to_bits() == y.to_bits()
same_bits(x, y) == x = y

\* `==` of f64 (PartialEq for f64): IEEE 754 comparison
f64_eq(x, y) ==
    /\ ~is_nan(x)
    /\ ~is_nan(y)
    /\ (same_bits(x, y) \/ (is_zero(x) /\ is_zero(y)))

----------------------------------------------------------------------------
(* FontAdjustment, font_fallback.rs:82-92 *)

FontAdjustment == [ascent : F64, descent : F64, line_gap : F64, size_adjust : F64]

\* #[derive(PartialEq)]: the fields are compared in order with `==`
FontAdjustment_eq(a, b) ==
    /\ f64_eq(a.ascent, b.ascent)
    /\ f64_eq(a.descent, b.descent)
    /\ f64_eq(a.line_gap, b.line_gap)
    /\ f64_eq(a.size_adjust, b.size_adjust)

----------------------------------------------------------------------------
(* FontFallback, font_fallback.rs:31-60 *)

AutomaticFontFallback(scoped, local, adjustment) ==
    [scoped_font_family |-> scoped, local_font_family |-> local,
     adjustment |-> adjustment]

Automatic(auto) == [tag |-> "Automatic", auto |-> auto]
Error == [tag |-> "Error"]
Manual(names) == [tag |-> "Manual", names |-> names]

\* a mutant: every Automatic fallback answers true
has_size_adjust_any_automatic(self) == self.tag = "Automatic"

\* a mutant: the Error variant answers true
has_size_adjust_error_true(self) ==
    \/ self.tag = "Error"
    \/ (self.tag = "Automatic" /\ is_some(self.auto.adjustment))

\* FontFallback::has_size_adjust
\* matches!(self, FontFallback::Automatic(auto) if auto.adjustment.is_some())
FontFallback_has_size_adjust(self) ==
    /\ self.tag = "Automatic"
    /\ is_some(self.auto.adjustment)

----------------------------------------------------------------------------
(* Vc<FontFallback>: a cell of the task engine.  Reading it either yields  *)
(* the value or the error of the task that should have produced it.        *)

Resolved(v) == [status |-> "Resolved", value |-> v]
Failed == [status |-> "Failed"]

\* `fallback.has_size_adjust().await`: Result<bool>
AwaitHasSizeAdjust(cell) ==
    IF cell.status = "Failed" THEN Err
    ELSE Ok(FontFallback_has_size_adjust(cell.value))

AdjPlain == [ascent |-> One, descent |-> NegZero, line_gap |-> PosZero,
             size_adjust |-> One]
AdjNaN   == [ascent |-> NaN, descent |-> NaN, line_gap |-> NaN,
             size_adjust |-> NaN]

\* the cells drawn as elements of a FontFallbacks
Cells ==
    {Resolved(Automatic(AutomaticFontFallback("__Roboto_Fallback_c123b8", "Arial", a))) :
        a \in {None, Some(AdjPlain), Some(AdjNaN)}}
    \cup {Resolved(Error), Failed}
    \cup {Resolved(Manual(l)) : l \in {<<>>, <<"Helvetica", "Arial">>}}

SeqsUpTo(S, n) == UNION {[1..k -> S] : k \in 0..n}

----------------------------------------------------------------------------
(* FontFallbacks::has_size_adjust, font_fallback.rs:65-77 *)

RECURSIVE has_size_adjust_from(_, _)
\* the `for` loop from position i on
has_size_adjust_from(cells, i) ==
    IF i > Len(cells) THEN Ok(FALSE)
    ELSE LET r == AwaitHasSizeAdjust(cells[i])
         IN  IF r = Err THEN Err
             ELSE IF r[2] THEN Ok(TRUE)
             ELSE has_size_adjust_from(cells, i + 1)

\* FontFallbacks::has_size_adjust as a function of self.0
FontFallbacks_has_size_adjust(cells) == has_size_adjust_from(cells, 1)

InitFallbacks ==
    /\ IdleEq /\ IdleLazy /\ IdleCls /\ IdleWs /\ IdleSwc
    /\ fallbacks \in SeqsUpTo(Cells, MaxLen)
    /\ idx = 1
    /\ aggPc = "iter"
    /\ started = {}
    /\ answers = <<>>
    /\ aggResult = <<>>

\* a mutant: every element task is created up front (as a join would do)
AggCallEager ==
    /\ aggPc = "iter"
    /\ idx <= Len(fallbacks)
    /\ started' = 1..Len(fallbacks)
    /\ aggPc' = "await"
    /\ UNCHANGED <<fallbacks, idx, answers, aggResult, notFont>>

\* line 70, `fallback.has_size_adjust()`: the element's task is created
AggCall ==
    /\ aggPc = "iter"
    /\ idx <= Len(fallbacks)
    /\ started' = started \cup {idx}
    /\ aggPc' = "await"
    /\ UNCHANGED <<fallbacks, idx, answers, aggResult, notFont>>

\* a mutant: a failed element counts as false (`.await.unwrap_or(false)`)
AggAwaitSwallow ==
    /\ aggPc = "await"
    /\ LET r == AwaitHasSizeAdjust(fallbacks[idx])
       IN  /\ answers' = Append(answers, r)
           /\ IF r # Err /\ r[2]
              THEN /\ aggResult' = Ok(TRUE)
                   /\ aggPc' = "returned"
                   /\ idx' = idx
              ELSE /\ aggResult' = aggResult
                   /\ aggPc' = "iter"
                   /\ idx' = idx + 1
    /\ UNCHANGED <<fallbacks, started, notFont>>

\* a mutant: the loop returns on the first false (an AND-reduction)
AggAwaitAll ==
    /\ aggPc = "await"
    /\ LET r == AwaitHasSizeAdjust(fallbacks[idx])
       IN  /\ answers' = Append(answers, r)
           /\ IF r = Err
              THEN /\ aggResult' = Err
                   /\ aggPc' = "returned"
                   /\ idx' = idx
              ELSE IF ~r[2]
              THEN /\ aggResult' = Ok(FALSE)
                   /\ aggPc' = "returned"
                   /\ idx' = idx
              ELSE /\ aggResult' = aggResult
                   /\ aggPc' = "iter"
                   /\ idx' = idx + 1
    /\ UNCHANGED <<fallbacks, started, notFont>>

\* lines 70-72, `.await?` and the `if`: the task's outcome is taken; an
\* error returns it, true returns Ok(true), false goes to the next element
AggAwait ==
    /\ aggPc = "await"
    /\ LET r == AwaitHasSizeAdjust(fallbacks[idx])
       IN  /\ answers' = Append(answers, r)
           /\ IF r = Err
              THEN /\ aggResult' = Err
                   /\ aggPc' = "returned"
                   /\ idx' = idx
              ELSE IF r[2]
              THEN /\ aggResult' = Ok(TRUE)
                   /\ aggPc' = "returned"
                   /\ idx' = idx
              ELSE /\ aggResult' = aggResult
                   /\ aggPc' = "iter"
                   /\ idx' = idx + 1
    /\ UNCHANGED <<fallbacks, started, notFont>>

\* line 75: the loop ran out of elements
AggExhausted ==
    /\ aggPc = "iter"
    /\ idx > Len(fallbacks)
    /\ aggResult' = Ok(FALSE)
    /\ aggPc' = "returned"
    /\ UNCHANGED <<fallbacks, idx, started, answers, notFont>>

----------------------------------------------------------------------------
(* FontAdjustment equality as an operation *)

InitEq ==
    /\ IdleFallbacks /\ IdleLazy /\ IdleCls /\ IdleWs /\ IdleSwc
    /\ eqA \in FontAdjustment
    /\ eqB \in FontAdjustment
    /\ eqResult = <<>>

\* `a == b` on two FontAdjustment values
Compare ==
    /\ eqResult = <<>>
    /\ eqResult' = <<FontAdjustment_eq(eqA, eqB)>>
    /\ UNCHANGED <<eqA, eqB, notEq>>

----------------------------------------------------------------------------
(* DEFAULT_SANS_SERIF_FONT and DEFAULT_SERIF_FONT, font_fallback.rs:7-29.  *)
(* Each is a once_cell::sync::Lazy: the closure given to Lazy::new runs on *)
(* the first dereference; a dereference that finds the cell being          *)
(* initialised by another thread blocks until the value is stored.         *)

\* the closure of DEFAULT_SANS_SERIF_FONT
DEFAULT_SANS_SERIF_FONT ==
    [name |-> "Arial", capsize_key |-> "arial",
     az_avg_width |-> "934.5116279069767", units_per_em |-> 2048]

\* the closure of DEFAULT_SERIF_FONT
DEFAULT_SERIF_FONT ==
    [name |-> "Times New Roman", capsize_key |-> "timesNewRoman",
     az_avg_width |-> "854.3953488372093", units_per_em |-> 2048]

Statics == {"DEFAULT_SANS_SERIF_FONT", "DEFAULT_SERIF_FONT"}

\* the value the initializer of a static builds
Initializer(st) ==
    IF st = "DEFAULT_SANS_SERIF_FONT" THEN DEFAULT_SANS_SERIF_FONT
    ELSE DEFAULT_SERIF_FONT

Readers == 1..NumReaders

InitLazy ==
    /\ IdleFallbacks /\ IdleEq /\ IdleCls /\ IdleWs /\ IdleSwc
    /\ cellState = [st \in Statics |-> "Incomplete"]
    /\ cellValue = [st \in Statics |-> None]
    /\ initRuns = [st \in Statics |-> 0]
    /\ rdPc = [r \in Readers |-> "idle"]
    /\ rdTarget = [r \in Readers |-> "DEFAULT_SANS_SERIF_FONT"]
    /\ rdCount = [r \in Readers |-> 0]
    /\ rdSeen = {}

\* a thread dereferences one of the statics (Lazy::deref -> Lazy::force)
Deref(r, st) ==
    /\ rdPc[r] = "idle"
    /\ rdCount[r] < MaxReads
    /\ rdPc' = [rdPc EXCEPT ![r] = "force"]
    /\ rdTarget' = [rdTarget EXCEPT ![r] = st]
    /\ UNCHANGED <<cellState, cellValue, initRuns, rdCount, rdSeen, notLazy>>

\* the cell is complete: the dereference returns a reference to its value
ForceGet(r) ==
    /\ rdPc[r] = "force"
    /\ cellState[rdTarget[r]] = "Complete"
    /\ rdSeen' = rdSeen \cup {<<rdTarget[r], cellValue[rdTarget[r]]>>}
    /\ rdCount' = [rdCount EXCEPT ![r] = @ + 1]
    /\ rdPc' = [rdPc EXCEPT ![r] = "idle"]
    /\ UNCHANGED <<cellState, cellValue, initRuns, rdTarget, notLazy>>

\* a mutant: the cell is not marked as being initialised, so a second
\* thread can claim it as well
ForceClaimNoMark(r) ==
    /\ rdPc[r] = "force"
    /\ cellState[rdTarget[r]] = "Incomplete"
    /\ rdPc' = [rdPc EXCEPT ![r] = "init"]
    /\ UNCHANGED <<cellState, cellValue, initRuns, rdTarget, rdCount, rdSeen,
                   notLazy>>

\* the cell is incomplete: this thread claims it (compare-and-swap of the
\* state from Incomplete to Running) and will run the initializer
ForceClaim(r) ==
    /\ rdPc[r] = "force"
    /\ cellState[rdTarget[r]] = "Incomplete"
    /\ cellState' = [cellState EXCEPT ![rdTarget[r]] = "Running"]
    /\ rdPc' = [rdPc EXCEPT ![r] = "init"]
    /\ UNCHANGED <<cellValue, initRuns, rdTarget, rdCount, rdSeen, notLazy>>

\* the claiming thread runs the closure, stores the value and publishes it
RunInit(r) ==
    /\ rdPc[r] = "init"
    /\ cellValue' = [cellValue EXCEPT ![rdTarget[r]] = Some(Initializer(rdTarget[r]))]
    /\ initRuns' = [initRuns EXCEPT ![rdTarget[r]] = @ + 1]
    /\ cellState' = [cellState EXCEPT ![rdTarget[r]] = "Complete"]
    /\ rdPc' = [rdPc EXCEPT ![r] = "force"]
    /\ UNCHANGED <<rdTarget, rdCount, rdSeen, notLazy>>

----------------------------------------------------------------------------
(* The fallback classifier and the metric adjustment calculator.  Their    *)
(* code is not among the files modelled here; they follow sections 4.1 to  *)
(* 4.3 of the specification.  The calculator's arithmetic is kept as       *)
(* unevaluated terms <<"div", x, y>>.                                      *)

GenericFamilies == {"sans-serif", "serif"}

\* 4.1 lookup(generic_family)
lookup(generic_family) ==
    IF generic_family = "sans-serif" THEN DEFAULT_SANS_SERIF_FONT
    ELSE DEFAULT_SERIF_FONT

\* the target font metrics drawn as inputs
TargetMetrics ==
    {[ascent |-> "1950", descent |-> "-494", line_gap |-> "0",
      avg_char_width |-> w, units_per_em |-> "2048"] :
        w \in {"1102", "0", "NaN", "inf"}}

ManualLists == {<<>>, <<"Georgia">>, <<"Helvetica", "Arial">>}

Div(x, y) == <<"div", x, y>>

\* 4.3: None when the metrics are unavailable, or the average width is
\* zero or not finite; else the four override values
calculate_adjustment(metrics, fallback) ==
    IF metrics = None THEN None
    ELSE LET t == metrics[1]
             target_ratio == Div(t.avg_char_width, t.units_per_em)
             fallback_ratio == Div(fallback.az_avg_width, fallback.units_per_em)
             size_adjust == Div(target_ratio, fallback_ratio)
             override(m) == Div(Div(m, t.units_per_em), size_adjust)
         IN  IF t.avg_char_width \in {"0", "NaN", "inf"} THEN None
             ELSE Some([ascent |-> override(t.ascent),
                        descent |-> override(t.descent),
                        line_gap |-> override(t.line_gap),
                        size_adjust |-> size_adjust])

\* a mutant: a requested generic family wins over the manual list
classify_family_first(family, manual, metrics) ==
    IF is_some(family)
    THEN [result |-> Automatic(AutomaticFontFallback(
                        "__Target_Fallback", lookup(family[1]).name,
                        calculate_adjustment(metrics, lookup(family[1])))),
          computed |-> TRUE]
    ELSE IF is_some(manual)
    THEN [result |-> Manual(manual[1]), computed |-> FALSE]
    ELSE [result |-> Error, computed |-> FALSE]

\* 4.2 classify(requested_generic_family, manual_list); `computed` tells
\* whether the calculator of 4.3 was run
classify(family, manual, metrics) ==
    IF is_some(manual)
    THEN [result |-> Manual(manual[1]), computed |-> FALSE]
    ELSE IF is_some(family)
    THEN [result |-> Automatic(AutomaticFontFallback(
                        "__Target_Fallback", lookup(family[1]).name,
                        calculate_adjustment(metrics, lookup(family[1])))),
          computed |-> TRUE]
    ELSE [result |-> Error, computed |-> FALSE]

InitClassify ==
    /\ IdleFallbacks /\ IdleEq /\ IdleLazy /\ IdleWs /\ IdleSwc
    /\ clsFamily \in {None} \cup {Some(g) : g \in GenericFamilies}
    /\ clsManual \in {None} \cup {Some(l) : l \in ManualLists}
    /\ clsMetrics \in {None} \cup {Some(m) : m \in TargetMetrics}
    /\ clsPc = "start"
    /\ clsResult = None
    /\ clsComputed = FALSE
    /\ clsAnswer = None

\* the classifier runs on the inputs
Classify ==
    /\ clsPc = "start"
    /\ LET c == classify(clsFamily, clsManual, clsMetrics)
       IN  /\ clsResult' = Some(c.result)
           /\ clsComputed' = c.computed
    /\ clsPc' = "classified"
    /\ UNCHANGED <<clsFamily, clsManual, clsMetrics, clsAnswer, notCls>>

\* the caller asks the descriptor whether it carries a size adjustment
Query ==
    /\ clsPc = "classified"
    /\ clsAnswer' = Some(FontFallback_has_size_adjust(clsResult[1]))
    /\ clsPc' = "queried"
    /\ UNCHANGED <<clsFamily, clsManual, clsMetrics, clsResult, clsComputed,
                   notCls>>

----------------------------------------------------------------------------
(* xtask `workspace`, main.rs:90-105 *)

NameValues == {"next", "turbo"}

\* HashSet<String> collected from the values of an argument
collect_set(values) == {values[i] : i \in DOMAIN values}

\* lines 95-98: get_many("NAME").map(..collect..).unwrap_or_default()
names_of(name_arg) ==
    IF is_some(name_arg) THEN collect_set(name_arg[1]) ELSE {}

InitWorkspace ==
    /\ IdleFallbacks /\ IdleEq /\ IdleLazy /\ IdleCls /\ IdleSwc
    /\ wsBump \in BOOLEAN
    /\ wsPublish \in BOOLEAN
    /\ wsDryRun \in BOOLEAN
    /\ wsNameArg \in {None} \cup {Some(v) : v \in SeqsUpTo(NameValues, MaxNames) \ {<<>>}}
    /\ wsPc = "bump?"
    /\ wsLog = <<>>
    /\ wsExit = None

wsFlags == <<wsBump, wsPublish, wsDryRun, wsNameArg>>

\* a mutant: the bump is always a dry run
WsCallBumpDry ==
    /\ wsPc = "bump?"
    /\ wsBump
    /\ wsLog' = Append(wsLog, <<"call", "run_bump", names_of(wsNameArg), TRUE>>)
    /\ wsPc' = "in_bump"
    /\ UNCHANGED <<wsFlags, wsExit, notWs>>

\* lines 94-99: --bump is set, run_bump(names, dry_run) is called
WsCallBump ==
    /\ wsPc = "bump?"
    /\ wsBump
    /\ wsLog' = Append(wsLog, <<"call", "run_bump", names_of(wsNameArg), wsDryRun>>)
    /\ wsPc' = "in_bump"
    /\ UNCHANGED <<wsFlags, wsExit, notWs>>

\* run_bump returns
WsBumpReturns ==
    /\ wsPc = "in_bump"
    /\ wsLog' = Append(wsLog, <<"return", "run_bump">>)
    /\ wsPc' = "publish?"
    /\ UNCHANGED <<wsFlags, wsExit, notWs>>

\* line 94: --bump is not set
WsSkipBump ==
    /\ wsPc = "bump?"
    /\ ~wsBump
    /\ wsPc' = "publish?"
    /\ UNCHANGED <<wsFlags, wsLog, wsExit, notWs>>

\* lines 101-103: --publish is set, publish_workspace(dry_run) is called
WsCallPublish ==
    /\ wsPc = "publish?"
    /\ wsPublish
    /\ wsLog' = Append(wsLog, <<"call", "publish_workspace", wsDryRun>>)
    /\ wsPc' = "in_publish"
    /\ UNCHANGED <<wsFlags, wsExit, notWs>>

\* publish_workspace returns
WsPublishReturns ==
    /\ wsPc = "in_publish"
    /\ wsLog' = Append(wsLog, <<"return", "publish_workspace">>)
    /\ wsPc' = "return"
    /\ UNCHANGED <<wsFlags, wsExit, notWs>>

\* line 101: --publish is not set
WsSkipPublish ==
    /\ wsPc = "publish?"
    /\ ~wsPublish
    /\ wsPc' = "return"
    /\ UNCHANGED <<wsFlags, wsLog, wsExit, notWs>>

\* line 104: Ok(())
WsReturn ==
    /\ wsPc = "return"
    /\ wsExit' = Some(Ok(<<>>))
    /\ wsPc' = "done"
    /\ UNCHANGED <<wsFlags, wsLog, notWs>>

----------------------------------------------------------------------------
(* xtask `upgrade-swc`, main.rs:110-165.  A string is the sequence of its  *)
(* characters, so that starts_with and format! are computed.               *)

\* str::starts_with
starts_with(str, prefix) ==
    /\ Len(str) >= Len(prefix)
    /\ SubSeq(str, 1, Len(prefix)) = prefix

\* format!("{}@{}", name, version)
format_ident(name, version) == name \o <<"@">> \o version

\* the packages a lockfile is drawn from, in Cargo.lock order
Universe ==
    << [name |-> <<"s", "w", "c">>, version |-> <<"1">>],
       [name |-> <<"s", "w", "c", "_", "a">>, version |-> <<"1">>],
       [name |-> <<"s", "w", "c", "x">>, version |-> <<"1">>],
       [name |-> <<"s", "y", "n">>, version |-> <<"1">>],
       [name |-> <<"s", "y", "n">>, version |-> <<"2">>],
       [name |-> <<"t", "e", "s", "t", "i", "n", "g">>, version |-> <<"1">>] >>

\* the lockfiles explored: the packages present, and one package that
\* dependencies may name although the lockfile does not hold it
LockShapes ==
    { [present |-> {1, 4, 5}, absent |-> 6],
      [present |-> {2, 3, 6}, absent |-> 4],
      [present |-> {2, 3, 4}, absent |-> 5],
      [present |-> {3, 4, 5}, absent |-> 1] }

RECURSIVE SortedSeq(_)
\* the members of a set of numbers in increasing order
SortedSeq(S) ==
    IF S = {} THEN <<>>
    ELSE LET m == CHOOSE x \in S : \A y \in S : x <= y
         IN  <<m>> \o SortedSeq(S \ {m})

\* lock.packages for a choice of the dependencies of each package present
Lockfile(shape, deps) ==
    LET order == SortedSeq(shape.present)
    IN  [i \in 1..Len(order) |->
            [name |-> Universe[order[i]].name,
             version |-> Universe[order[i]].version,
             dependencies |->
                LET d == SortedSeq(deps[order[i]])
                IN  [k \in 1..Len(d) |-> Universe[d[k]]]]]

\* lines 119-123: the filter of swc_packages
is_swc_package(p) ==
    \/ starts_with(p.name, <<"s", "w", "c", "_">>)
    \/ p.name = <<"s", "w", "c">>
    \/ p.name = <<"t", "e", "s", "t", "i", "n", "g">>

RECURSIVE FilterPositions(_, _)
\* the positions of lock.packages that pass the filter, in order
FilterPositions(pkgs, i) ==
    IF i > Len(pkgs) THEN <<>>
    ELSE (IF is_swc_package(pkgs[i]) THEN <<i>> ELSE <<>>)
         \o FilterPositions(pkgs, i + 1)

\* lines 129-133: collect::<HashMap>, a later entry replacing an earlier one
collect_packages(pkgs) ==
    [id \in {format_ident(pkgs[i].name, pkgs[i].version) : i \in DOMAIN pkgs} |->
        CHOOSE i \in DOMAIN pkgs :
            /\ format_ident(pkgs[i].name, pkgs[i].version) = id
            /\ \A j \in DOMAIN pkgs :
                format_ident(pkgs[j].name, pkgs[j].version) = id => j <= i]

InitSwc ==
    /\ IdleFallbacks /\ IdleEq /\ IdleLazy /\ IdleCls /\ IdleWs
    /\ \E shape \in LockShapes :
        \E deps \in [shape.present ->
                        {D \in SUBSET (shape.present \cup {shape.absent}) :
                            Cardinality(D) <= MaxDeps}] :
            lock = Lockfile(shape, deps)
    /\ swc_packages = <<>>
    /\ only_swc_set = {}
    /\ packages = <<>>
    /\ queue = <<>>
    /\ set = {}
    /\ swcPc = "start"
    /\ pushes = <<>>
    /\ cargoArgs = <<>>

\* a mutant: the seed packages are marked as seen before the loop
SwcSeedMarked ==
    /\ swcPc = "start"
    /\ swc_packages' = FilterPositions(lock, 1)
    /\ only_swc_set' = {lock[i].name : i \in {swc_packages'[k] : k \in DOMAIN swc_packages'}}
    /\ packages' = collect_packages(lock)
    /\ queue' = swc_packages'
    /\ set' = {format_ident(lock[queue'[k]].name, lock[queue'[k]].version) :
                k \in DOMAIN queue'}
    /\ pushes' = [id \in DOMAIN packages' |-> 0]
    /\ swcPc' = "loop"
    /\ UNCHANGED <<lock, cargoArgs, notSwc>>

\* lines 116-135: swc_packages, only_swc_set, packages, queue and set
SwcSeed ==
    /\ swcPc = "start"
    /\ swc_packages' = FilterPositions(lock, 1)
    /\ only_swc_set' = {lock[i].name : i \in {swc_packages'[k] : k \in DOMAIN swc_packages'}}
    /\ packages' = collect_packages(lock)
    /\ queue' = swc_packages'
    /\ set' = {}
    /\ pushes' = [id \in DOMAIN packages' |-> 0]
    /\ swcPc' = "loop"
    /\ UNCHANGED <<lock, cargoArgs, notSwc>>

RECURSIVE visit_dependencies(_, _, _)
\* lines 137-143, the `for` loop over package.dependencies from position i:
\* st holds set, queue, pushes, and whether the unwrap of line 139 panicked
visit_dependencies(deps, i, st) ==
    IF i > Len(deps) THEN st
    ELSE LET ident == format_ident(deps[i].name, deps[i].version)
         IN  IF ident \notin DOMAIN packages
             THEN [st EXCEPT !.panicked = TRUE]
             ELSE IF ident \notin st.set
             THEN visit_dependencies(deps, i + 1,
                    [st EXCEPT !.set = @ \cup {ident},
                               !.queue = Append(@, packages[ident]),
                               !.pushes[ident] = @ + 1])
             ELSE visit_dependencies(deps, i + 1, st)

\* lines 136-144, one iteration of `while let Some(package) = queue.pop()`
SwcPop ==
    /\ swcPc = "loop"
    /\ queue # <<>>
    /\ LET package == lock[queue[Len(queue)]]
           st == visit_dependencies(package.dependencies, 1,
                    [set |-> set, queue |-> SubSeq(queue, 1, Len(queue) - 1),
                     pushes |-> pushes, panicked |-> FALSE])
       IN  /\ set' = st.set
           /\ queue' = st.queue
           /\ pushes' = st.pushes
           /\ swcPc' = IF st.panicked THEN "panicked" ELSE "loop"
    /\ UNCHANGED <<lock, swc_packages, only_swc_set, packages, cargoArgs, notSwc>>

\* line 136: queue.pop() is None, the loop ends
SwcLoopEnd ==
    /\ swcPc = "loop"
    /\ queue = <<>>
    /\ swcPc' = "upgrade"
    /\ UNCHANGED <<lock, swc_packages, only_swc_set, packages, queue, set,
                   pushes, cargoArgs, notSwc>>

\* lines 145-154: `cargo upgrade --workspace <only_swc_set>` and the assert
\* on its exit status
SwcCargoUpgrade(success) ==
    /\ swcPc = "upgrade"
    /\ cargoArgs' = Append(cargoArgs, <<"upgrade", "--workspace", only_swc_set>>)
    /\ swcPc' = IF success THEN "update" ELSE "panicked"
    /\ UNCHANGED <<lock, swc_packages, only_swc_set, packages, queue, set,
                   pushes, notSwc>>

\* lines 155-164: `cargo update -p <ident> ...` and the assert on its exit
\* status, then Ok(())
SwcCargoUpdate(success) ==
    /\ swcPc = "update"
    /\ cargoArgs' = Append(cargoArgs, <<"update", {<<"-p", id>> : id \in set}>>)
    /\ swcPc' = IF success THEN "done" ELSE "panicked"
    /\ UNCHANGED <<lock, swc_packages, only_swc_set, packages, queue, set,
                   pushes, notSwc>>

----------------------------------------------------------------------------
(* Specifications *)

NextFallbacks == AggCall \/ AggAwait \/ AggExhausted
SpecFallbacks == InitFallbacks /\ [][NextFallbacks]_vars

NextEq == Compare
SpecEq == InitEq /\ [][NextEq]_vars

NextLazy ==
    \E r \in Readers :
        \/ \E st \in Statics : Deref(r, st)
        \/ ForceGet(r)
        \/ ForceClaim(r)
        \/ RunInit(r)
SpecLazy == InitLazy /\ [][NextLazy]_vars

NextClassify == Classify \/ Query
SpecClassify == InitClassify /\ [][NextClassify]_vars

NextWorkspace ==
    \/ WsCallBump \/ WsBumpReturns \/ WsSkipBump
    \/ WsCallPublish \/ WsPublishReturns \/ WsSkipPublish
    \/ WsReturn
SpecWorkspace == InitWorkspace /\ [][NextWorkspace]_vars

NextSwc ==
    \/ SwcSeed
    \/ SwcPop
    \/ SwcLoopEnd
    \/ \E success \in BOOLEAN : SwcCargoUpgrade(success)
    \/ \E success \in BOOLEAN : SwcCargoUpdate(success)
\* the command is a sequential program: it keeps running until it returns
\* or panics
SpecSwc == InitSwc /\ [][NextSwc]_vars /\ WF_vars(NextSwc)

----------------------------------------------------------------------------
(* Properties of FontFallback and FontFallbacks, under SpecFallbacks *)

IsResolved(cell) == cell.status = "Resolved"
AllResolved(cells) == \A i \in DOMAIN cells : IsResolved(cells[i])
AnswersTrue(cell) == IsResolved(cell) /\ FontFallback_has_size_adjust(cell.value)

\* C1: FontFallback::has_size_adjust answers true exactly for an Automatic
\* value whose adjustment is Some; for every Manual list, for Error and for
\* Automatic with adjustment None it answers false.
C1_HasSizeAdjust ==
    \A i \in DOMAIN answers :
        IsResolved(fallbacks[i]) =>
            LET v == fallbacks[i].value
            IN  CASE v.tag = "Manual" -> answers[i] = Ok(FALSE)
                  [] v.tag = "Error" -> answers[i] = Ok(FALSE)
                  [] v.tag = "Automatic" ->
                        answers[i] = Ok(v.auto.adjustment # None)

\* a Manual list and an Automatic without adjustment have answered false and
\* an Automatic with an adjustment has answered true
C1_Witness ==
    /\ Len(answers) = 3
    /\ fallbacks[1] = Resolved(Manual(<<"Helvetica", "Arial">>))
    /\ fallbacks[2].value.tag = "Automatic"
    /\ fallbacks[2].value.auto.adjustment = None
    /\ fallbacks[3].value.tag = "Automatic"
    /\ answers = <<Ok(FALSE), Ok(FALSE), Ok(TRUE)>>

\* the cells of a sequence rearranged by a permutation of its positions
Rearranged(cells, perm) == [i \in DOMAIN cells |-> cells[perm[i]]]

\* C2: when every element evaluates successfully, FontFallbacks::has_size_adjust
\* returns Ok(true) if and only if some element answers true; the empty
\* sequence gives Ok(false); every permutation of the sequence gives the
\* same result.
C2_AnyElement ==
    AllResolved(fallbacks) =>
        /\ aggPc = "returned" =>
            /\ aggResult = Ok(\E i \in DOMAIN fallbacks : AnswersTrue(fallbacks[i]))
            /\ fallbacks = <<>> => aggResult = Ok(FALSE)
            /\ aggResult = FontFallbacks_has_size_adjust(fallbacks)
        /\ \A perm \in Permutations(DOMAIN fallbacks) :
            FontFallbacks_has_size_adjust(Rearranged(fallbacks, perm))
                = FontFallbacks_has_size_adjust(fallbacks)

\* the aggregator has returned true for a sequence whose first element is a
\* Manual list and whose true element comes later
C2_Witness ==
    /\ aggPc = "returned"
    /\ AllResolved(fallbacks)
    /\ Len(fallbacks) = 3
    /\ fallbacks[1].value.tag = "Manual"
    /\ ~AnswersTrue(fallbacks[2])
    /\ AnswersTrue(fallbacks[3])
    /\ aggResult = Ok(TRUE)

\* C3: the element tasks are created one at a time in sequence order, each
\* awaited before the next is created; once an element has answered true
\* the aggregator has returned Ok(true) and no later element's task has
\* been created.
C3_ShortCircuit ==
    /\ started = 1..(IF aggPc = "await" THEN Len(answers) + 1 ELSE Len(answers))
    /\ \A i \in DOMAIN answers :
        answers[i] = Ok(TRUE) =>
            /\ i = Len(answers)
            /\ aggPc = "returned"
            /\ aggResult = Ok(TRUE)
            /\ started = 1..i
    /\ aggResult = Ok(TRUE) =>
        /\ answers # <<>>
        /\ answers[Len(answers)] = Ok(TRUE)

\* the aggregator has returned true at the first element while two more
\* elements follow it, one of which would also answer true
C3_Witness ==
    /\ aggResult = Ok(TRUE)
    /\ Len(fallbacks) = 3
    /\ Len(answers) = 1
    /\ AnswersTrue(fallbacks[3])

FirstFailure(cells, f) ==
    /\ f \in DOMAIN cells
    /\ ~IsResolved(cells[f])
    /\ \A i \in 1..(f - 1) : IsResolved(cells[i])

FirstTrue(cells, t) ==
    /\ t \in DOMAIN cells
    /\ AnswersTrue(cells[t])
    /\ \A i \in 1..(t - 1) : ~AnswersTrue(cells[i])

\* C8: once the aggregator has returned: if an element fails and no earlier
\* element answered true, the result is that failure and no later element
\* has been evaluated; if an element answers true and no earlier element
\* failed, the result is Ok(true) whatever the later elements are.
C8_FailurePropagates ==
    aggPc = "returned" =>
        /\ \A f \in DOMAIN fallbacks :
            (FirstFailure(fallbacks, f)
                /\ \A i \in 1..(f - 1) : ~AnswersTrue(fallbacks[i])) =>
                    /\ aggResult = Err
                    /\ Len(answers) = f
                    /\ started = 1..f
        /\ \A t \in DOMAIN fallbacks :
            (FirstTrue(fallbacks, t)
                /\ \A i \in 1..(t - 1) : IsResolved(fallbacks[i])) =>
                    aggResult = Ok(TRUE)

\* the second element failed after a false first one, and the aggregator
\* returned the failure without evaluating the third, which would answer true
C8_Witness ==
    /\ aggPc = "returned"
    /\ Len(fallbacks) = 3
    /\ IsResolved(fallbacks[1])
    /\ fallbacks[2] = Failed
    /\ AnswersTrue(fallbacks[3])
    /\ aggResult = Err
    /\ answers = <<Ok(FALSE), Err>>

----------------------------------------------------------------------------
(* Equality of FontAdjustment, under SpecEq *)

\* C4: two FontAdjustment values compare equal exactly when their four
\* fields have identical bit patterns; in particular every value, also one
\* with a NaN field, is equal to itself.
C4_BitwiseEquality ==
    eqResult # <<>> =>
        (eqResult[1] <=>
            /\ same_bits(eqA.ascent, eqB.ascent)
            /\ same_bits(eqA.descent, eqB.descent)
            /\ same_bits(eqA.line_gap, eqB.line_gap)
            /\ same_bits(eqA.size_adjust, eqB.size_adjust))

----------------------------------------------------------------------------
(* The default fallback fonts, under SpecLazy *)

\* C5 as stated: both records are constructed, once, from the start of the
\* process on, and every read observes the same field values.
C5_ConstructedAtProcessStart ==
    /\ \A st \in Statics : cellState[st] = "Complete" /\ initRuns[st] = 1
    /\ \A seen \in rdSeen : seen[2] = Some(Initializer(seen[1]))

ExpectedFont(st) ==
    IF st = "DEFAULT_SANS_SERIF_FONT"
    THEN [name |-> "Arial", capsize_key |-> "arial",
          az_avg_width |-> "934.5116279069767", units_per_em |-> 2048]
    ELSE [name |-> "Times New Roman", capsize_key |-> "timesNewRoman",
          az_avg_width |-> "854.3953488372093", units_per_em |-> 2048]

\* C5, amended: each record is constructed at most once, by the first read
\* of it and not before; a constructed record never changes; and every read
\* observes the same field values (Arial or Times New Roman, with
\* units_per_em = 2048).
C5_ConstructedOnceOnFirstRead ==
    /\ [](\A st \in Statics :
            /\ initRuns[st] <= 1
            /\ initRuns[st] = 1 <=> cellState[st] = "Complete"
            /\ cellState[st] = "Complete" <=> cellValue[st] # None
            /\ initRuns[st] = 0 => \A seen \in rdSeen : seen[1] # st)
    /\ [](\A seen \in rdSeen : seen[2] = Some(ExpectedFont(seen[1])))
    /\ [][\A st \in Statics :
            cellValue[st] # None => cellValue'[st] = cellValue[st]]_vars

\* one record has been constructed and read, while two threads race for the
\* other: one runs its initializer and the other waits for the value
C5_Witness ==
    /\ rdSeen # {}
    /\ \E r1, r2 \in Readers :
        /\ rdPc[r1] = "init"
        /\ rdPc[r2] = "force"
        /\ rdTarget[r1] = rdTarget[r2]
        /\ cellState[rdTarget[r1]] = "Running"

----------------------------------------------------------------------------
(* The classifier, under SpecClassify *)

\* C6: given a manual list, classify returns Manual(list) with the same
\* names in the same order, whatever the requested generic family is, and
\* the metric adjustment calculator is not run.
C6_ManualPrecedence ==
    (clsPc # "start" /\ clsManual # None) =>
        /\ clsResult = Some([tag |-> "Manual", names |-> clsManual[1]])
        /\ ~clsComputed

\* a two-name manual list was classified together with a serif request
C6_Witness ==
    /\ clsPc = "classified"
    /\ clsManual = Some(<<"Helvetica", "Arial">>)
    /\ clsFamily = Some("serif")
    /\ clsMetrics # None
    /\ clsResult # None

\* C7: given neither a manual list nor a generic family, classify returns
\* the Error variant as a value; the value has no payload and answers false
\* to has_size_adjust.
C7_ErrorVariant ==
    (clsPc # "start" /\ clsManual = None /\ clsFamily = None) =>
        /\ clsResult = Some([tag |-> "Error"])
        /\ clsPc = "queried" => clsAnswer = Some(FALSE)

\* classify ran without manual list and family, and the result was queried
C7_Witness ==
    /\ clsPc = "queried"
    /\ clsManual = None
    /\ clsFamily = None
    /\ clsMetrics # None
    /\ clsAnswer # None

----------------------------------------------------------------------------
(* xtask `workspace`, under SpecWorkspace *)

IsPrefix(p, q) == Len(p) <= Len(q) /\ SubSeq(q, 1, Len(p)) = p

\* what the command is to do for the flags given
ExpectedCalls ==
    (IF wsBump
     THEN << <<"call", "run_bump",
               IF wsNameArg = None THEN {}
               ELSE {wsNameArg[1][i] : i \in DOMAIN wsNameArg[1]},
               wsDryRun>>,
             <<"return", "run_bump">> >>
     ELSE <<>>)
    \o
    (IF wsPublish
     THEN << <<"call", "publish_workspace", wsDryRun>>,
             <<"return", "publish_workspace">> >>
     ELSE <<>>)

\* C10: run_bump is called only with --bump and publish_workspace only with
\* --publish; with both, run_bump has returned before publish_workspace is
\* called; with neither nothing is called; each call gets the value of
\* --dry-run; and the command returns Ok(()).
C10_BumpThenPublish ==
    /\ IsPrefix(wsLog, ExpectedCalls)
    /\ wsPc = "done" => wsLog = ExpectedCalls /\ wsExit = Some(Ok(<<>>))
    /\ wsExit # None => wsPc = "done"

\* both flags were set without --dry-run, a name was given twice, and the
\* command has returned
C10_Witness ==
    /\ wsPc = "done"
    /\ wsBump /\ wsPublish /\ ~wsDryRun
    /\ wsNameArg = Some(<<"next", "next">>)
    /\ Len(wsLog) = 4

----------------------------------------------------------------------------
(* xtask `upgrade-swc`, under SpecSwc *)

Ident(p) == format_ident(p.name, p.version)
LockIdents == {Ident(lock[i]) : i \in DOMAIN lock}

\* every dependency of every package of the lockfile is a package of it
EveryDependencyResolves ==
    \A i \in DOMAIN lock : \A k \in DOMAIN lock[i].dependencies :
        Ident(lock[i].dependencies[k]) \in LockIdents

\* the identifiers one dependency edge away from the packages of a set
DependenciesOf(ids) ==
    {Ident(lock[i].dependencies[k]) :
        <<i, k>> \in {<<i, k>> \in (DOMAIN lock) \X (1..MaxDeps) :
                        /\ Ident(lock[i]) \in ids
                        /\ k \in DOMAIN lock[i].dependencies}}

RECURSIVE Closure(_, _)
\* the least set that holds `ids` and is closed under DependenciesOf
Closure(ids, fuel) ==
    IF fuel = 0 \/ DependenciesOf(ids) \subseteq ids THEN ids
    ELSE Closure(ids \cup DependenciesOf(ids), fuel - 1)

\* the packages named swc or testing, or whose name starts with swc_
SeedIdents ==
    {Ident(lock[i]) : i \in {j \in DOMAIN lock :
        \/ lock[j].name = <<"s", "w", "c">>
        \/ lock[j].name = <<"t", "e", "s", "t", "i", "n", "g">>
        \/ (Len(lock[j].name) >= 4
            /\ SubSeq(lock[j].name, 1, 4) = <<"s", "w", "c", "_">>)}}

\* the identifiers reachable from the seeds by one or more edges
ReachableFromSeeds == Closure(DependenciesOf(SeedIdents), Len(lock))

LoopExited == swcPc \in {"upgrade", "update", "done"}

\* C9: when every dependency resolves, the worklist loop ends, and then
\* `set` holds exactly the identifiers reachable from the seed packages by
\* one or more dependency edges; no identifier is pushed onto the queue
\* more than once after the seeding.
C9_WorklistReachability ==
    /\ [](\A id \in DOMAIN pushes : pushes[id] <= 1)
    /\ []((EveryDependencyResolves /\ swcPc \in {"upgrade", "update", "done"})
            => set = ReachableFromSeeds)
    /\ []((EveryDependencyResolves /\ swcPc \in {"upgrade", "update", "done"})
            => \A id \in DOMAIN pushes : pushes[id] = 1 <=> id \in set)
    /\ (EveryDependencyResolves => <>LoopExited)

\* the loop has ended on a lockfile in which a seed is itself a dependency,
\* another package is reachable and a third is not
C9_Witness ==
    /\ swcPc = "upgrade"
    /\ EveryDependencyResolves
    /\ \E i \in DOMAIN lock :
        /\ Ident(lock[i]) \in SeedIdents
        /\ Ident(lock[i]) \in set
    /\ \E i \in DOMAIN lock : Ident(lock[i]) \notin SeedIdents /\ Ident(lock[i]) \in set
    /\ \E i \in DOMAIN lock : Ident(lock[i]) \notin set

====
